---- MODULE Spec2Model ----
(***************************************************************************)
(* A model of the pipeline core of MiCoNE / mindpipe:                      *)
(*   - mindpipe/pipelines/command.py : class Command                       *)
(*   - mindpipe/config/params.py     : Input, Output, Parameters, Params,  *)
(*                                     ParamsSet and its specializations   *)
(* Python strings on which the code computes (the command line) are        *)
(* sequences of one-character strings.  Python's None is 0 for a handle    *)
(* or a capture and the record NoneLoc for a location.                     *)
(***************************************************************************)
EXTENDS Integers, Sequences, FiniteSets, TLC

(***************************************************************************)
(* Bounds of the model.                                                    *)
(***************************************************************************)
\* longest command string handed to Command(...) and update(...)
MaxCmdLen == 2
\* number of run() calls on one Command
MaxRuns == 2
\* IO descriptors (inputs plus outputs) one catalog entry declares
MaxIO == 2
\* input overrides one user settings document holds
MaxOverrides == 2
\* entries of one catalog handed to a registry
MaxEntries == 2
\* stages of one pipeline
MaxStages == 3

VARIABLES
    built,      \* a Command object exists (its __init__ returned)
    profile,    \* Command.profile
    _cmd,       \* Command._cmd : the argument vector, a list of strings
    process,    \* Command.process : NoProcess (None) or the Popen handle of a child
    _stdout,    \* Command._stdout : 0 (None) or k, the decoded stdout of child k
    _stderr,    \* Command._stderr : 0 (None) or k, the decoded stderr of child k
    children,   \* the OS processes run() has started: children[pid] is "still running"
    c_call,     \* the last call on the Command and how it ended
    input,      \* Params.input : Set[Input], in the set's iteration order
    output,     \* Params.output : Set[Output], in the set's iteration order
    parameters, \* Params.parameters : Set[Parameters], in iteration order
    output_location,    \* Params.output_location
    p_call,     \* the last call on the Params and how it ended
    entry,      \* the catalog entry the Params was constructed from
    catalog,    \* the catalog the last registry was constructed from
    processes,  \* ParamsSet.processes : Set[Params], in insertion order
    r_call,     \* the last registry construction and how it ended
    pipeline    \* the Pipeline: its stages, their order and the progress of run()

cmd_vars == <<built, profile, _cmd, process, _stdout, _stderr, children, c_call>>

params_vars == <<input, output, parameters, output_location, p_call, entry>>

reg_vars == <<catalog, processes, r_call>>

pipe_vars == <<pipeline>>

vars == <<cmd_vars, params_vars, reg_vars, pipe_vars>>

(***************************************************************************)
(* Strings                                                                 *)
(***************************************************************************)
Chars == {"a", " "}

RECURSIVE StringsOfLen(_)
StringsOfLen(n) ==
    IF n = 0 THEN {<<>>}
    ELSE {<<c>> \o s : c \in Chars, s \in StringsOfLen(n - 1)}

\* the command strings a caller passes
CmdStrings == UNION {StringsOfLen(n) : n \in 0..MaxCmdLen}

\* str.split(): empty pieces dropped
RECURSIVE SplitDroppingEmpty(_)
SplitDroppingEmpty(s) ==
    IF s = <<>> THEN <<>>
    ELSE LET rest == SplitDroppingEmpty(Tail(s))
         IN  IF Head(s) = " " THEN rest
             ELSE IF Len(s) > 1 /\ s[2] # " "
                  THEN << <<Head(s)>> \o Head(rest) >> \o Tail(rest)
                  ELSE << <<Head(s)>> >> \o rest

\* str.split(" "): one piece per separator plus one, empty pieces kept
RECURSIVE Split(_)
Split(s) ==
    IF s = <<>> THEN << <<>> >>
    ELSE LET rest == Split(Tail(s))
         IN  IF Head(s) = " "
             THEN << <<>> >> \o rest
             ELSE << <<Head(s)>> \o Head(rest) >> \o Tail(rest)

\* " ".join(words)
RECURSIVE Join(_)
Join(words) ==
    IF words = <<>> THEN <<>>
    ELSE IF Len(words) = 1 THEN words[1]
    ELSE words[1] \o <<" ">> \o Join(Tail(words))

\* the string "qsub"
QSUB == <<"q", "s", "u", "b">>

\* the profile values a caller passes; only "local" and "sge" are known to the code
Profiles == {"local", "sge", "grid", "slurm"}

(***************************************************************************)
(* Command                                                                 *)
(***************************************************************************)
\* _build_cmd without its else branch: an unknown profile is run as local
_build_cmd_no_raise(p, cmd) ==
    IF p = "sge" THEN [err |-> "ok", val |-> <<QSUB>> \o Split(cmd)]
    ELSE [err |-> "ok", val |-> Split(cmd)]

\* Command._build_cmd: the argument vector of cmd under profile p, or ValueError
_build_cmd(p, cmd) ==
    IF p = "local" THEN [err |-> "ok", val |-> Split(cmd)]
    ELSE IF p = "sge" THEN [err |-> "ok", val |-> <<QSUB>> \o Split(cmd)]
    ELSE [err |-> "ValueError", val |-> <<>>]

\* Command.cmd (property)
cmd == Join(_cmd)

NoCall == [op |-> "none", outcome |-> "ok", cmd |-> <<>>, profile |-> "", warned |-> FALSE]

Call(op, outcome) == [NoCall EXCEPT !.op = op, !.outcome = outcome]

\* Command.__init__(cmd, profile): no Command is produced when _build_cmd raises
Construct(c, p) ==
    /\ ~built
    /\ LET r == _build_cmd(p, c)
       IN  IF r.err = "ok"
           THEN /\ built' = TRUE
                /\ profile' = p
                /\ _cmd' = r.val
                /\ c_call' = [Call("Construct", "ok") EXCEPT !.cmd = c, !.profile = p]
                /\ UNCHANGED <<process, _stdout, _stderr, children>>
           ELSE /\ c_call' = [Call("Construct", r.err) EXCEPT !.cmd = c, !.profile = p]
                /\ UNCHANGED <<built, profile, _cmd, process, _stdout, _stderr, children>>

\* the byte streams a child writes: each is valid UTF-8 or not
Streams == [outOk : BOOLEAN, errOk : BOOLEAN]

\* Command.process is None
NoProcess == [pid |-> 0, args |-> <<>>, outOk |-> TRUE, errOk |-> TRUE]

\* Command.run: subprocess.Popen(self._cmd, ...) starts a child and the handle
\* keeps its args, or raises OSError (no such program) and assigns nothing
run(launched, streams) ==
    /\ built
    /\ Len(children) < MaxRuns
    /\ IF launched
       THEN /\ children' = Append(children, TRUE)
            /\ process' = [pid |-> Len(children) + 1, args |-> _cmd,
                           outOk |-> streams.outOk, errOk |-> streams.errOk]
            /\ c_call' = Call("run", "ok")
            /\ UNCHANGED <<built, profile, _cmd, _stdout, _stderr>>
       ELSE /\ c_call' = Call("run", "OSError")
            /\ UNCHANGED <<built, profile, _cmd, process, _stdout, _stderr, children>>

\* a child ends by itself, whether or not the Command still holds its handle
ChildExit(k) ==
    /\ k \in 1..Len(children)
    /\ children[k]
    /\ children' = [children EXCEPT ![k] = FALSE]
    /\ UNCHANGED <<built, profile, _cmd, process, _stdout, _stderr, c_call>>

\* Popen.communicate(timeout=self._timeout) on the handle raises TimeoutExpired,
\* and leaves the child running, when the child is alive and does not end
\* within the timeout (exits = FALSE); otherwise it returns both streams
TimesOut(exits) == children[process.pid] /\ ~exits

\* the child of the handle has ended when communicate returns
Reaped == [children EXCEPT ![process.pid] = FALSE]

\* both streams of the handle's child decode
Decodes == process.outOk /\ process.errOk

\* Command.wait: stderr is decoded and stored first, then stdout
wait(exits) ==
    /\ built
    /\ IF process = NoProcess
       THEN /\ c_call' = Call("wait", "ok")
            /\ UNCHANGED <<built, profile, _cmd, process, _stdout, _stderr, children>>
       ELSE IF TimesOut(exits)
       THEN /\ c_call' = Call("wait", "TimeoutExpired")
            /\ UNCHANGED <<built, profile, _cmd, process, _stdout, _stderr, children>>
       ELSE /\ children' = Reaped
            /\ _stderr' = IF process.errOk THEN process.pid ELSE _stderr
            /\ _stdout' = IF Decodes THEN process.pid ELSE _stdout
            /\ c_call' = Call("wait", IF Decodes THEN "ok" ELSE "UnicodeDecodeError")
            /\ UNCHANGED <<built, profile, _cmd, process>>

\* Command.log: the captures are read, or fetched into locals; none is stored
log(exits) ==
    /\ built
    /\ IF _stdout # 0 /\ _stderr # 0
       THEN /\ c_call' = Call("log", "ok")
            /\ UNCHANGED <<built, profile, _cmd, process, _stdout, _stderr, children>>
       ELSE IF process = NoProcess
       THEN /\ c_call' = Call("log", "NotImplementedError")
            /\ UNCHANGED <<built, profile, _cmd, process, _stdout, _stderr, children>>
       ELSE IF TimesOut(exits)
       THEN /\ c_call' = Call("log", "TimeoutExpired")
            /\ UNCHANGED <<built, profile, _cmd, process, _stdout, _stderr, children>>
       ELSE /\ children' = Reaped
            /\ c_call' = Call("log", IF Decodes THEN "ok" ELSE "UnicodeDecodeError")
            /\ UNCHANGED <<built, profile, _cmd, process, _stdout, _stderr>>

\* Command.proc_cmd_sync
proc_cmd_sync == _cmd = process.args

\* Command.output (property): stdout is decoded and stored first, then stderr
command_output(exits) ==
    /\ built
    /\ IF _stdout # 0
       THEN /\ c_call' = Call("output", "ok")
            /\ UNCHANGED <<built, profile, _cmd, process, _stdout, _stderr, children>>
       ELSE IF process = NoProcess
       THEN /\ c_call' = Call("output", "NotImplementedError")
            /\ UNCHANGED <<built, profile, _cmd, process, _stdout, _stderr, children>>
       ELSE IF TimesOut(exits)
       THEN /\ c_call' = Call("output", "TimeoutExpired")
            /\ UNCHANGED <<built, profile, _cmd, process, _stdout, _stderr, children>>
       ELSE /\ children' = Reaped
            /\ _stdout' = IF process.outOk THEN process.pid ELSE _stdout
            /\ _stderr' = IF Decodes THEN process.pid ELSE _stderr
            /\ c_call' = Call("output", IF Decodes THEN "ok" ELSE "UnicodeDecodeError")
            /\ UNCHANGED <<built, profile, _cmd, process>>

\* error without the check that the command was run
error_unchecked(exits) ==
    /\ built
    /\ IF _stderr # 0 \/ process = NoProcess
       THEN /\ c_call' = Call("error", "ok")
            /\ UNCHANGED <<built, profile, _cmd, process, _stdout, _stderr, children>>
       ELSE IF TimesOut(exits)
       THEN /\ c_call' = Call("error", "TimeoutExpired")
            /\ UNCHANGED <<built, profile, _cmd, process, _stdout, _stderr, children>>
       ELSE /\ children' = Reaped
            /\ _stdout' = IF process.outOk THEN process.pid ELSE _stdout
            /\ _stderr' = IF Decodes THEN process.pid ELSE _stderr
            /\ c_call' = Call("error", IF Decodes THEN "ok" ELSE "UnicodeDecodeError")
            /\ UNCHANGED <<built, profile, _cmd, process>>

\* Command.error (property): stdout is decoded and stored first, then stderr
error(exits) ==
    /\ built
    /\ IF _stderr # 0
       THEN /\ c_call' = Call("error", "ok")
            /\ UNCHANGED <<built, profile, _cmd, process, _stdout, _stderr, children>>
       ELSE IF process = NoProcess
       THEN /\ c_call' = Call("error", "NotImplementedError")
            /\ UNCHANGED <<built, profile, _cmd, process, _stdout, _stderr, children>>
       ELSE IF TimesOut(exits)
       THEN /\ c_call' = Call("error", "TimeoutExpired")
            /\ UNCHANGED <<built, profile, _cmd, process, _stdout, _stderr, children>>
       ELSE /\ children' = Reaped
            /\ _stdout' = IF process.outOk THEN process.pid ELSE _stdout
            /\ _stderr' = IF Decodes THEN process.pid ELSE _stderr
            /\ c_call' = Call("error", IF Decodes THEN "ok" ELSE "UnicodeDecodeError")
            /\ UNCHANGED <<built, profile, _cmd, process>>

\* update forgetting the captures but not the handle
ClearedCapturesOnly == [process |-> process, _stdout |-> 0, _stderr |-> 0]

\* update forgetting the handle but not the captures
ClearedHandleOnly == [process |-> NoProcess, _stdout |-> _stdout, _stderr |-> _stderr]

\* the state Command.update clears when the launched process is out of sync
Cleared == [process |-> NoProcess, _stdout |-> 0, _stderr |-> 0]

\* Command.update: the profile of a built Command is one _build_cmd accepts
update(c) ==
    /\ built
    /\ _cmd' = _build_cmd(profile, c).val
    /\ IF process # NoProcess /\ _cmd' # process.args
       THEN /\ process' = Cleared.process
            /\ _stdout' = Cleared._stdout
            /\ _stderr' = Cleared._stderr
            /\ c_call' = [Call("update", "ok") EXCEPT !.cmd = c, !.warned = TRUE]
       ELSE /\ c_call' = [Call("update", "ok") EXCEPT !.cmd = c]
            /\ UNCHANGED <<process, _stdout, _stderr>>
    /\ UNCHANGED <<built, profile, children>>

\* no Command is built yet; no Params is exercised
InitCmd ==
    /\ input = <<>>
    /\ output = <<>>
    /\ parameters = <<>>
    /\ output_location = [type |-> "Path", path |-> "/e"]
    /\ p_call = [op |-> "none", outcome |-> "ok"]
    /\ entry = [input |-> <<>>, output |-> <<>>]
    /\ catalog = <<>>
    /\ processes = <<>>
    /\ r_call = [op |-> "none", outcome |-> "ok"]
    /\ pipeline = [built |-> FALSE, outcome |-> "none"]
    /\ built = FALSE
    /\ profile = ""
    /\ _cmd = <<>>
    /\ process = NoProcess
    /\ _stdout = 0
    /\ _stderr = 0
    /\ children = <<>>
    /\ c_call = NoCall

NextCmd ==
    \/ \E c \in CmdStrings, p \in Profiles : Construct(c, p) /\ UNCHANGED <<params_vars, reg_vars, pipe_vars>>
    \/ \E launched \in BOOLEAN, s \in Streams :
          run(launched, s) /\ UNCHANGED <<params_vars, reg_vars, pipe_vars>>
    \/ \E k \in 1..MaxRuns : ChildExit(k) /\ UNCHANGED <<params_vars, reg_vars, pipe_vars>>
    \/ \E exits \in BOOLEAN : wait(exits) /\ UNCHANGED <<params_vars, reg_vars, pipe_vars>>
    \/ \E exits \in BOOLEAN : log(exits) /\ UNCHANGED <<params_vars, reg_vars, pipe_vars>>
    \/ \E exits \in BOOLEAN : command_output(exits) /\ UNCHANGED <<params_vars, reg_vars, pipe_vars>>
    \/ \E exits \in BOOLEAN : error(exits) /\ UNCHANGED <<params_vars, reg_vars, pipe_vars>>
    \/ \E c \in CmdStrings : update(c) /\ UNCHANGED <<params_vars, reg_vars, pipe_vars>>

SpecCmd == InitCmd /\ [][NextCmd]_vars

(***************************************************************************)
(* Params: Input, Output, Parameters                                       *)
(*                                                                         *)
(* A Python set of Input, Output or Parameters tuples is a sequence in the *)
(* set's iteration order.  The tuples hash by datatype (process) alone but *)
(* compare as tuples, field by field, so a set holds two tuples of one     *)
(* datatype as soon as they differ in another field.  A location is a      *)
(* value with its Python type: None, a pathlib.Path or a str.              *)
(***************************************************************************)
DT == {"X", "Y"}

NoneLoc == [type |-> "NoneType", path |-> ""]
PathOf(s) == [type |-> "Path", path |-> s]
StrOf(s) == [type |-> "str", path |-> s]

\* the file system: pathlib.Path.is_absolute and pathlib.Path.exists
AbsolutePaths == {"/e"}
ExistingPaths == {"/e"}

\* the accepted-format lists catalog entries declare
CatalogFormats == {<<"a">>, <<"a", "b">>}

SeqsUpTo(S, n) == UNION {[1..k -> S] : k \in 0..n}

\* an entry of the installed catalog: the value of Params((key, value)) with
\* every required key, well-formed input and output items and an existing root
CatalogInputs == SeqsUpTo([datatype : DT, format : CatalogFormats], MaxIO)
CatalogOutputs ==
    SeqsUpTo([datatype : DT, format : {<<"a">>}, location : {"/e", ""}], MaxIO)
CatalogParameters == << [process |-> "p", k |-> "v1"], [process |-> "q", k |-> "v1"] >>

\* set.add: an element equal to one in the set is not added
SetAdd(set, e) ==
    IF \E i \in 1..Len(set) : set[i] = e THEN set ELSE Append(set, e)

\* set.remove(set[i]) then set.add(e): e takes the slot set[i] leaves, unless
\* an equal element is in the set already
Replace(set, i, e) ==
    IF \E j \in 1..Len(set) : j # i /\ set[j] = e
    THEN SubSeq(set, 1, i - 1) \o SubSeq(set, i + 1, Len(set))
    ELSE [set EXCEPT ![i] = e]

\* Params._process_io for well-formed items: an input keeps the required
\* fields only, so its location is None; an output's location becomes a Path
RECURSIVE _process_io(_, _)
_process_io(data, category) ==
    IF data = <<>> THEN <<>>
    ELSE LET item == data[Len(data)]
             io == IF category = "input"
                   THEN [datatype |-> item.datatype, format |-> item.format,
                         location |-> NoneLoc]
                   ELSE [datatype |-> item.datatype, format |-> item.format,
                         location |-> IF item.location = "" THEN NoneLoc
                                      ELSE PathOf(item.location)]
         IN  SetAdd(_process_io(SubSeq(data, 1, Len(data) - 1), category), io)

\* a dict without its "process" key
WithoutProcess(d) == [key \in DOMAIN d \ {"process"} |-> d[key]]

\* Params.__init__, lines 107-112: the Parameters set
RECURSIVE init_parameters(_)
init_parameters(data) ==
    IF data = <<>> THEN <<>>
    ELSE SetAdd(init_parameters(SubSeq(data, 1, Len(data) - 1)),
                [process |-> data[Len(data)].process,
                 params |-> WithoutProcess(data[Len(data)])])

\* the loop of Params.get over a set: the index of the first element whose
\* key is name, 0 when there is none (KeyError)
RECURSIVE Find(_, _, _)
Find(set, key, name) ==
    IF set = <<>> THEN 0
    ELSE IF set[1][key] = name THEN 1
    ELSE LET r == Find(Tail(set), key, name) IN IF r = 0 THEN 0 ELSE r + 1

\* Params.get: [err, at] where at indexes the element found
get(name, category) ==
    IF category = "input"
    THEN LET i == Find(input, "datatype", name)
         IN  [err |-> IF i = 0 THEN "KeyError" ELSE "ok", at |-> i]
    ELSE IF category = "output"
    THEN LET i == Find(output, "datatype", name)
         IN  [err |-> IF i = 0 THEN "KeyError" ELSE "ok", at |-> i]
    ELSE IF category = "parameters"
    THEN LET i == Find(parameters, "process", name)
         IN  [err |-> IF i = 0 THEN "KeyError" ELSE "ok", at |-> i]
    ELSE [err |-> "TypeError", at |-> 0]

NoRet == [input |-> <<>>, output |-> <<>>]

\* the last call on the descriptor: its outcome, for attach_to its argument
\* and whether it repeats the successful call before it, for dict its value
NoPCall ==
    [op |-> "none", outcome |-> "ok", prev |-> <<>>, again |-> FALSE, ret |-> NoRet]

PCall(op, outcome) == [NoPCall EXCEPT !.op = op, !.outcome = outcome]

\* a faulty update_location: an element that has the location already loses it
RelocatedUnlessThere(set, i, location) ==
    Replace(set, i, [datatype |-> set[i].datatype, format |-> set[i].format,
                     location |-> IF set[i].location = location
                                  THEN NoneLoc ELSE location])

\* Params.update_location on a set: the element get found, with the location
\* as it was passed
Relocated(set, i, location) ==
    Replace(set, i, [datatype |-> set[i].datatype, format |-> set[i].format,
                     location |-> location])

\* Params.update_location
update_location(name, location, category) ==
    LET element == get(name, category)
    IN  /\ IF element.err # "ok"
           THEN /\ p_call' = PCall("update_location", element.err)
                /\ UNCHANGED <<input, output>>
           ELSE IF category = "input"
           THEN /\ input' = Relocated(input, element.at, location)
                /\ p_call' = PCall("update_location", "ok")
                /\ UNCHANGED output
           ELSE IF category = "output"
           THEN /\ output' = Relocated(output, element.at, location)
                /\ p_call' = PCall("update_location", "ok")
                /\ UNCHANGED input
           ELSE /\ p_call' = PCall("update_location", "TypeError")
                /\ UNCHANGED <<input, output>>
        /\ UNCHANGED <<parameters, output_location, entry>>

\* f in io_item.format
\* a format check that accepts every format
InListUnchecked(f, list) == TRUE

\* f in list
InList(f, list) == \E k \in 1..Len(list) : list[k] = f

\* Params.merge, lines 272-283: the input overrides, applied one by one until
\* one raises; what was replaced before stays replaced
RECURSIVE merge_inputs(_, _)
merge_inputs(set, overrides) ==
    IF overrides = <<>> THEN [err |-> "ok", input |-> set]
    ELSE LET curr_input == Head(overrides)
             io_item == Find(set, "datatype", curr_input.datatype)
         IN  IF io_item = 0 THEN [err |-> "KeyError", input |-> set]
             ELSE IF \E k \in 1..Len(curr_input.format) :
                        ~InList(curr_input.format[k], set[io_item].format)
             THEN [err |-> "ValueError", input |-> set]
             ELSE merge_inputs(
                      Replace(set, io_item,
                              [datatype |-> set[io_item].datatype,
                               format |-> curr_input.format,
                               location |-> curr_input.location]),
                      Tail(overrides))

\* {**a, **b}
DictMerge(a, b) ==
    [key \in DOMAIN a \cup DOMAIN b |-> IF key \in DOMAIN b THEN b[key] ELSE a[key]]

\* Params.merge, lines 284-291: the parameter overrides
RECURSIVE merge_parameters(_, _)
merge_parameters(set, overrides) ==
    IF overrides = <<>> THEN [err |-> "ok", parameters |-> set]
    ELSE LET curr_params == Head(overrides)
             param_item == Find(set, "process", curr_params.process)
         IN  IF param_item = 0 THEN [err |-> "KeyError", parameters |-> set]
             ELSE merge_parameters(
                      Replace(set, param_item,
                              [process |-> set[param_item].process,
                               params |-> DictMerge(set[param_item].params, curr_params)]),
                      Tail(overrides))

\* an input override of the document asks for a format that no input of its
\* datatype accepts
Offending(user_settings) ==
    \E n \in 1..Len(user_settings.input) :
        LET o == user_settings.input[n]
        IN  /\ \E i \in 1..Len(input) : input[i].datatype = o.datatype
            /\ \A i \in 1..Len(input) :
                  input[i].datatype = o.datatype
                     => \E k \in 1..Len(o.format) : ~InList(o.format[k], input[i].format)

\* Params.merge
merge(user_settings) ==
    LET ins == merge_inputs(input, user_settings.input)
        pars == merge_parameters(parameters, user_settings.parameters)
    IN  /\ input' = ins.input
        /\ parameters' = IF ins.err = "ok" THEN pars.parameters ELSE parameters
        /\ p_call' = PCall("merge", IF ins.err = "ok" THEN pars.err ELSE ins.err)
        /\ UNCHANGED <<output, output_location, entry>>

\* Params.attach_to: the loop over self.input from slot i on, while
\* update_location replaces elements of the very set it iterates; the iterator
\* raises RuntimeError once the set has changed size
RECURSIVE attach_from(_, _, _)
attach_from(set, i, previous) ==
    IF i > Len(set) THEN [err |-> "ok", input |-> set]
    ELSE LET output_ == Find(previous, "datatype", set[i].datatype)
             element == Find(set, "datatype", set[i].datatype)
         IN  IF output_ = 0 THEN [err |-> "KeyError", input |-> set]
             ELSE LET next == Relocated(set, element, previous[output_].location)
                  IN  IF Len(next) # Len(set)
                      THEN [err |-> "RuntimeError", input |-> next]
                      ELSE attach_from(next, i + 1, previous)

\* Params.attach_to(previous): previous is read through its output set only
attach_to(previous) ==
    LET r == attach_from(input, 1, previous)
    IN  /\ input' = r.input
        /\ p_call' = [PCall("attach_to", r.err) EXCEPT
                         !.prev = previous,
                         !.again = /\ p_call.op = "attach_to"
                                   /\ p_call.outcome = "ok"
                                   /\ p_call.prev = previous]
        /\ UNCHANGED <<output, parameters, output_location, entry>>

\* Params.verify_io, lines 233-237
RECURSIVE verify_inputs(_)
verify_inputs(set) ==
    IF set = <<>> THEN "ok"
    ELSE IF set[1].location.type = "NoneType" THEN "ValueError"
    ELSE IF set[1].location.type = "str" THEN "AttributeError"
    ELSE IF set[1].location.path \notin ExistingPaths THEN "FileNotFoundError"
    ELSE verify_inputs(Tail(set))

\* Params.verify_io, lines 238-242
RECURSIVE verify_outputs(_)
verify_outputs(set) ==
    IF set = <<>> THEN "ok"
    ELSE IF set[1].location.type = "NoneType" THEN "ValueError"
    ELSE IF set[1].location.type = "str" THEN "AttributeError"
    ELSE IF set[1].location.path \notin AbsolutePaths THEN "ValueError"
    ELSE verify_outputs(Tail(set))

\* Params.verify_io: "ok", or the exception the first failing check raises
verify_io ==
    IF output_location.path \notin AbsolutePaths THEN "ValueError"
    ELSE IF verify_inputs(input) # "ok" THEN verify_inputs(input)
    ELSE verify_outputs(output)

\* the index of the last element of the set whose key is name
Last(set, key, name) ==
    CHOOSE i \in 1..Len(set) :
        /\ set[i][key] = name
        /\ \A j \in (i + 1)..Len(set) : set[j][key] # name

\* {elem.datatype: str(elem.location) for elem in set}
LocationsByDatatype(set) ==
    [d \in {set[i].datatype : i \in 1..Len(set)} |->
        set[Last(set, "datatype", d)].location.path]

\* the dictionary Params.dict builds, lines 255-261: the process names are
\* assigned last
data ==
    LET procs == {parameters[i].process : i \in 1..Len(parameters)}
    IN  [key \in {"input", "output", "output_dir"} \cup procs |->
            IF key \in procs THEN parameters[Last(parameters, "process", key)].params
            ELSE IF key = "input" THEN LocationsByDatatype(input)
            ELSE IF key = "output" THEN LocationsByDatatype(output)
            ELSE output_location]

\* Params.dict (property)
dict ==
    /\ p_call' = [PCall("dict", verify_io) EXCEPT
                     !.ret = IF verify_io = "ok" THEN data ELSE NoRet]
    /\ UNCHANGED <<input, output, parameters, output_location, entry>>

\* the user settings documents a caller merges
OverrideItems == [datatype : DT, format : {<<"a">>, <<"b">>}, location : {StrOf("/e")}]
ParameterOverrides ==
    SeqsUpTo({[process |-> "p", k |-> "v2"], [process |-> "z", k |-> "v2"]}, 1)
UserSettings ==
    [input : SeqsUpTo(OverrideItems, MaxOverrides), parameters : ParameterOverrides]

\* the locations a caller passes to update_location; attach_to passes the
\* location of an output, which is None for an output declared without one
LocationArgs == {StrOf("/e"), PathOf("r"), NoneLoc}

\* the output sets of the descriptors a caller attaches to: catalog entries
\* whose outputs all have a location
PreviousOutputs ==
    {_process_io(o, "output") :
        o \in {c \in CatalogOutputs : \A k \in 1..Len(c) : c[k].location # ""}}

\* Params.__init__ on an entry of the catalog; no Command is exercised
InitParams ==
    /\ \E i \in CatalogInputs, o \in CatalogOutputs :
          /\ Len(i) + Len(o) <= MaxIO
          /\ entry = [input |-> i, output |-> o]
          /\ input = _process_io(i, "input")
          /\ output = _process_io(o, "output")
    /\ parameters = init_parameters(CatalogParameters)
    /\ output_location \in {PathOf("/e"), PathOf("r")}
    /\ p_call = NoPCall
    /\ built = FALSE
    /\ profile = ""
    /\ _cmd = <<>>
    /\ process = NoProcess
    /\ _stdout = 0
    /\ _stderr = 0
    /\ children = <<>>
    /\ c_call = NoCall
    /\ catalog = <<>>
    /\ processes = <<>>
    /\ r_call = [op |-> "none", outcome |-> "ok"]
    /\ pipeline = [built |-> FALSE, outcome |-> "none"]

NextParams ==
    \/ \E u \in UserSettings : merge(u) /\ UNCHANGED <<cmd_vars, reg_vars, pipe_vars>>
    \/ \E name \in DT \cup {"p"}, location \in LocationArgs,
          category \in {"input", "output", "parameters", "other"} :
          update_location(name, location, category) /\ UNCHANGED <<cmd_vars, reg_vars, pipe_vars>>
    \/ \E previous \in PreviousOutputs : attach_to(previous) /\ UNCHANGED <<cmd_vars, reg_vars, pipe_vars>>
    \/ dict /\ UNCHANGED <<cmd_vars, reg_vars, pipe_vars>>

SpecParams == InitParams /\ [][NextParams]_vars

(***************************************************************************)
(* ParamsSet, InternalParamsSet, ExternalParamsSet                         *)
(*                                                                         *)
(* A catalog is a Python dict in its iteration order: for the internal     *)
(* catalog a sequence of [name, value] with distinct names, for the        *)
(* external one a sequence of [level_1, level_2, level_3, value] with      *)
(* distinct key paths, grouped as the nested dicts iterate.  A key is a    *)
(* string, a sequence of characters, and may hold dots.  A value is a      *)
(* definition Params accepts.  A Params object is [id, name, value]: it    *)
(* hashes by name and, having no __eq__, equals itself only.               *)
(***************************************************************************)
Keys == {<<"a">>, <<"b">>, <<"a", ".", "b">>}
Values == {"D"}

\* the keys of a dict are distinct
Distinct(keys) ==
    \A i, j \in 1..Len(keys) : keys[i] = keys[j] => i = j

\* nested dicts iterate the entries under one key one after the other
Grouped(keys) ==
    \A i, j, k \in 1..Len(keys) :
        (i < j /\ j < k /\ keys[i] = keys[k]) => keys[j] = keys[i]

\* the keys of a catalog, entry by entry
NamesOf(c) == [i \in 1..Len(c) |-> c[i].name]
Level1Of(c) == [i \in 1..Len(c) |-> c[i].level_1]
Level2Of(c) == [i \in 1..Len(c) |-> <<c[i].level_1, c[i].level_2>>]
Level3Of(c) == [i \in 1..Len(c) |-> <<c[i].level_1, c[i].level_2, c[i].level_3>>]

InternalCatalogs ==
    {c \in SeqsUpTo([name : Keys, value : Values], MaxEntries) : Distinct(NamesOf(c))}

ExternalCatalogs ==
    {c \in SeqsUpTo([level_1 : Keys, level_2 : Keys, level_3 : Keys, value : Values],
                    MaxEntries) :
        Distinct(Level3Of(c)) /\ Grouped(Level1Of(c)) /\ Grouped(Level2Of(c))}

\* process_params in self.processes: the set compares a Params of the same
\* hash with ==, which is identity
Contains(set, process_params) ==
    \E i \in 1..Len(set) : set[i].id = process_params.id

\* ParamsSet.__init__ over data.items(): [err, processes]
RECURSIVE ParamsSet_init(_, _)
ParamsSet_init(set, items) ==
    IF items = <<>> THEN [err |-> "ok", processes |-> set]
    ELSE LET process_params == [id |-> Len(set) + 1, name |-> Head(items).name,
                                value |-> Head(items).value]
         IN  IF Contains(set, process_params)
             THEN [err |-> "ValueError", processes |-> set]
             ELSE ParamsSet_init(Append(set, process_params), Tail(items))

\* f"{level_1}.{level_2}.{level_3}"
DottedName(level_1, level_2, level_3) ==
    level_1 \o <<".">> \o level_2 \o <<".">> \o level_3

\* data_processed[name] = value: a key the dict holds keeps its place
DictSet(d, name, value) ==
    IF \E i \in 1..Len(d) : d[i].name = name
    THEN [i \in 1..Len(d) |-> IF d[i].name = name
                              THEN [name |-> name, value |-> value] ELSE d[i]]
    ELSE Append(d, [name |-> name, value |-> value])

\* ExternalParamsSet.__init__, lines 375-380
RECURSIVE data_processed(_)
data_processed(c) ==
    IF c = <<>> THEN <<>>
    ELSE LET e == c[Len(c)]
         IN  DictSet(data_processed(SubSeq(c, 1, Len(c) - 1)),
                     DottedName(e.level_1, e.level_2, e.level_3), e.value)

RCall(op, outcome) == [op |-> op, outcome |-> outcome]

\* InternalParamsSet(data), and ParamsSet(data) alike
InternalParamsSet(c) ==
    LET r == ParamsSet_init(<<>>, c)
    IN  /\ catalog' = c
        /\ processes' = r.processes
        /\ r_call' = RCall("InternalParamsSet", r.err)

\* ExternalParamsSet(data)
ExternalParamsSet(c) ==
    LET r == ParamsSet_init(<<>>, data_processed(c))
    IN  /\ catalog' = c
        /\ processes' = r.processes
        /\ r_call' = RCall("ExternalParamsSet", r.err)

\* no registry is constructed yet; no Command and no Params is exercised
InitReg ==
    /\ catalog = <<>>
    /\ processes = <<>>
    /\ r_call = RCall("none", "ok")
    /\ pipeline = [built |-> FALSE, outcome |-> "none"]
    /\ input = <<>>
    /\ output = <<>>
    /\ parameters = <<>>
    /\ output_location = PathOf("/e")
    /\ p_call = NoPCall
    /\ entry = [input |-> <<>>, output |-> <<>>]
    /\ built = FALSE
    /\ profile = ""
    /\ _cmd = <<>>
    /\ process = NoProcess
    /\ _stdout = 0
    /\ _stderr = 0
    /\ children = <<>>
    /\ c_call = NoCall

NextReg ==
    \/ \E c \in InternalCatalogs :
          InternalParamsSet(c) /\ UNCHANGED <<cmd_vars, params_vars, pipe_vars>>
    \/ \E c \in ExternalCatalogs :
          ExternalParamsSet(c) /\ UNCHANGED <<cmd_vars, params_vars, pipe_vars>>

SpecReg == InitReg /\ [][NextReg]_vars

(***************************************************************************)
(* Pipeline                                                                *)
(*                                                                         *)
(* The Pipeline class is not among the sources; it is modelled from its    *)
(* contract: the constructor resolves the stages of the user settings into *)
(* an order in which no stage comes before a stage whose output it         *)
(* consumes, and fails on a cycle; run() is a generator that, stage by     *)
(* stage in that order, starts the stage's Command and then yields it.     *)
(***************************************************************************)
StageNames == <<"A", "B", "C", "D", "E">>
Stages == {StageNames[i] : i \in 1..MaxStages}

\* <<up, down>>: stage down has an input of a datatype stage up outputs
Edges(stages) == {e \in stages \X stages : e[1] # e[2]}

\* the orders of a set of stages
Orders(stages) ==
    {o \in [1..Cardinality(stages) -> stages] :
        \A i, j \in 1..Cardinality(stages) : o[i] = o[j] => i = j}

\* the position of a stage in an order
IndexOf(o, stage) == CHOOSE i \in 1..Len(o) : o[i] = stage

\* an order that ignores the dependencies
AnyOrders(stages, deps) == Orders(stages)

\* the orders in which every stage comes after the stages it consumes from
TopologicalOrders(stages, deps) ==
    {o \in Orders(stages) : \A e \in deps : IndexOf(o, e[1]) < IndexOf(o, e[2])}

\* Pipeline(user_settings, profile, ...), the constructor, which runs once: a
\* cycle is a fatal construction error and leaves no Pipeline
Pipeline_init(stages, deps) ==
    /\ pipeline.outcome = "none"
    /\ IF TopologicalOrders(stages, deps) = {}
       THEN pipeline' = [built |-> FALSE, outcome |-> "error", stages |-> stages,
                         deps |-> deps, order |-> <<>>, launched |-> <<>>,
                         yielded |-> <<>>]
       ELSE \E o \in TopologicalOrders(stages, deps) :
               pipeline' = [built |-> TRUE, outcome |-> "ok", stages |-> stages,
                            deps |-> deps, order |-> o, launched |-> <<>>,
                            yielded |-> <<>>]

\* Pipeline.run, up to its yield: the Command of the next stage is started
Pipeline_run_start ==
    /\ pipeline.built
    /\ Len(pipeline.launched) = Len(pipeline.yielded)
    /\ Len(pipeline.launched) < Len(pipeline.order)
    /\ pipeline' = [pipeline EXCEPT
                       !.launched = Append(@, pipeline.order[Len(@) + 1])]

\* Pipeline.run, at its yield: the started Command is handed to the caller
Pipeline_run_yield ==
    /\ pipeline.built
    /\ Len(pipeline.yielded) < Len(pipeline.launched)
    /\ pipeline' = [pipeline EXCEPT
                       !.yielded = Append(@, pipeline.launched[Len(@) + 1])]

\* no Pipeline is constructed yet; nothing else is exercised
InitPipe ==
    /\ pipeline = [built |-> FALSE, outcome |-> "none"]
    /\ catalog = <<>>
    /\ processes = <<>>
    /\ r_call = RCall("none", "ok")
    /\ input = <<>>
    /\ output = <<>>
    /\ parameters = <<>>
    /\ output_location = PathOf("/e")
    /\ p_call = NoPCall
    /\ entry = [input |-> <<>>, output |-> <<>>]
    /\ built = FALSE
    /\ profile = ""
    /\ _cmd = <<>>
    /\ process = NoProcess
    /\ _stdout = 0
    /\ _stderr = 0
    /\ children = <<>>
    /\ c_call = NoCall

NextPipe ==
    \/ \E stages \in SUBSET Stages \ {{}} : \E deps \in SUBSET Edges(stages) :
          Pipeline_init(stages, deps) /\ UNCHANGED <<cmd_vars, params_vars, reg_vars>>
    \/ Pipeline_run_start /\ UNCHANGED <<cmd_vars, params_vars, reg_vars>>
    \/ Pipeline_run_yield /\ UNCHANGED <<cmd_vars, params_vars, reg_vars>>

SpecPipe == InitPipe /\ [][NextPipe]_vars

(***************************************************************************)
(* Claims about Pipeline, checked under SpecPipe                           *)
(***************************************************************************)
\* every stage of the sequence comes after the stages it consumes from and
\* occurs in it once
InDependencyOrder(seq) ==
    /\ \A i, j \in 1..Len(seq) : seq[i] = seq[j] => i = j
    /\ \A i \in 1..Len(seq) : \A e \in pipeline.deps :
          e[2] = seq[i] => \E j \in 1..(i - 1) : seq[j] = e[1]

\* C12: run() yields one Command per stage in dependency order: no Command
\* is started or yielded before the Command of every stage whose output its
\* stage consumes, a yielded Command has been started, and the exhausted
\* run() has yielded each stage once.
C12_RunInDependencyOrder ==
    pipeline.built
       => /\ InDependencyOrder(pipeline.launched)
          /\ InDependencyOrder(pipeline.yielded)
          /\ \A i \in 1..Len(pipeline.yielded) :
                \E j \in 1..Len(pipeline.launched) :
                   pipeline.launched[j] = pipeline.yielded[i]
          /\ Len(pipeline.yielded) = Len(pipeline.order)
                => {pipeline.yielded[i] : i \in 1..Len(pipeline.yielded)}
                      = pipeline.stages

\* run() is exhausted on a pipeline of three stages with two dependencies
C12_Witness ==
    /\ pipeline.built
    /\ Cardinality(pipeline.stages) = 3
    /\ Cardinality(pipeline.deps) >= 2
    /\ Len(pipeline.yielded) = 3

(***************************************************************************)
(* Claims about Params, checked under SpecParams                           *)
(***************************************************************************)
\* C1: merge(user_settings) fails for every document in which some input
\* override asks for a format its datatype does not accept, and after the
\* failure the input set, the output set and the parameter set are what they
\* were before the call, wherever the offending override sits in the document.
C1_MergeRejectsAndLeavesUnchanged ==
    [][ \A u \in UserSettings :
          (merge(u) /\ Offending(u))
             => /\ p_call'.outcome # "ok"
                /\ UNCHANGED <<input, output, parameters>> ]_vars

\* the datatypes a set of IO descriptors declares
Datatypes(set) == {set[i].datatype : i \in 1..Len(set)}

\* C8: after attach_to(previous) returns, every input carries the location of
\* previous's output of the same datatype; when some input datatype has no
\* output in previous the call fails as not found (KeyError).
C8_AttachCopiesLocations ==
    p_call.op = "attach_to"
       => IF \E d \in Datatypes(input) : d \notin Datatypes(p_call.prev)
          THEN p_call.outcome = "KeyError"
          ELSE /\ p_call.outcome = "ok"
               /\ \A i \in 1..Len(input) :
                     input[i].location =
                        p_call.prev[Find(p_call.prev, "datatype",
                                         input[i].datatype)].location

\* C9: attach_to is idempotent: when self.attach_to(previous) has succeeded, a
\* second self.attach_to(previous) succeeds and leaves the input set, its
\* datatypes, formats and locations, as the first call left it.
C9_AttachIdempotent ==
    [][ \A previous \in PreviousOutputs :
          ( /\ p_call.op = "attach_to"
            /\ p_call.outcome = "ok"
            /\ p_call.prev = previous
            /\ attach_to(previous) )
             => (p_call'.outcome = "ok" /\ input' = input) ]_vars

C9_Witness ==
    /\ p_call.op = "attach_to"
    /\ p_call.outcome = "ok"
    /\ p_call.again
    /\ Len(input) = 2
    /\ \A i \in 1..Len(input) : input[i].location = PathOf("/e")

\* C10: once the output directory and every output location are absolute and
\* every input location exists, dict succeeds, the keys of its input map are
\* the declared input datatypes, the keys of its output map the declared
\* output datatypes, and each key maps to the location of its descriptor.
C10_DictOfLocatedDescriptor ==
    ( /\ p_call.op = "dict"
      /\ output_location.path \in AbsolutePaths
      /\ \A i \in 1..Len(output) :
            output[i].location # NoneLoc /\ output[i].location.path \in AbsolutePaths
      /\ \A i \in 1..Len(input) :
            input[i].location # NoneLoc /\ input[i].location.path \in ExistingPaths )
       => /\ p_call.outcome = "ok"
          /\ DOMAIN p_call.ret.input = Datatypes(input)
          /\ DOMAIN p_call.ret.output = Datatypes(output)
          /\ \A i \in 1..Len(input) :
                p_call.ret.input[input[i].datatype] = input[i].location.path
          /\ \A i \in 1..Len(output) :
                p_call.ret.output[output[i].datatype] = output[i].location.path

\* the descriptor breaks a condition of verify_io: the output directory is not
\* absolute, an input has no location or one that does not exist, or an
\* output has no location or one that is not absolute
BreaksVerifyIo ==
    \/ output_location.path \notin AbsolutePaths
    \/ \E i \in 1..Len(input) :
          input[i].location = NoneLoc \/ input[i].location.path \notin ExistingPaths
    \/ \E i \in 1..Len(output) :
          output[i].location = NoneLoc \/ output[i].location.path \notin AbsolutePaths

\* C11: verify_io, and so dict, fails with a validation error (ValueError or
\* FileNotFoundError in the code) in every state that breaks one of its
\* conditions and returns no execution context then; in every other state it
\* succeeds.
C11_VerifyIoDecides ==
    p_call.op = "dict"
       => IF BreaksVerifyIo
          THEN /\ p_call.outcome \in {"ValueError", "FileNotFoundError"}
               /\ p_call.ret = NoRet
          ELSE p_call.outcome = "ok"

\* C17: in every state reached by construction from a catalog entry and any
\* merge, attach_to and update_location calls, no two descriptors of the input
\* set share a datatype and no two of the output set do.
C17_DatatypesUnique ==
    /\ Cardinality(Datatypes(input)) = Len(input)
    /\ Cardinality(Datatypes(output)) = Len(output)

\* the set with the location of element i replaced, nothing else
WithLocation(set, i, location) ==
    [set EXCEPT ![i] = [datatype |-> set[i].datatype, format |-> set[i].format,
                        location |-> location]]

\* C18: update_location(name, location, category) with category input or
\* output and a name the category declares changes the location of one
\* descriptor of that datatype and nothing else: its datatype and format, the
\* other descriptors, their number, the other category and the parameters stay;
\* another category or an unknown name fails and changes nothing.
C18_UpdateLocationFrame ==
    [][ \A name \in DT \cup {"p"}, location \in LocationArgs,
          category \in {"input", "output", "parameters", "other"} :
          update_location(name, location, category)
             => IF category = "input" /\ name \in Datatypes(input)
                THEN /\ p_call'.outcome = "ok"
                     /\ \E i \in 1..Len(input) :
                           /\ input[i].datatype = name
                           /\ input' = WithLocation(input, i, location)
                     /\ UNCHANGED <<output, parameters, output_location>>
                ELSE IF category = "output" /\ name \in Datatypes(output)
                THEN /\ p_call'.outcome = "ok"
                     /\ \E i \in 1..Len(output) :
                           /\ output[i].datatype = name
                           /\ output' = WithLocation(output, i, location)
                     /\ UNCHANGED <<input, parameters, output_location>>
                ELSE /\ p_call'.outcome \in {"KeyError", "TypeError"}
                     /\ UNCHANGED <<input, output, parameters, output_location>>
      ]_vars

\* C19: after a successful merge, for each parameter override naming process
\* p the param map of p's record has as keys the union of its previous keys
\* and the override's keys other than "process", each override key bound to
\* the override's value and every other key to its previous value; the
\* records of the other processes are unchanged.
C19_MergeParameters ==
    [][ \A u \in UserSettings :
          (merge(u) /\ p_call'.outcome = "ok")
             => /\ Len(parameters') = Len(parameters)
                /\ \A i \in 1..Len(parameters) :
                      /\ parameters'[i].process = parameters[i].process
                      /\ \A n \in 1..Len(u.parameters) :
                            u.parameters[n].process = parameters[i].process
                               => LET o == u.parameters[n]
                                      free == DOMAIN o \ {"process"}
                                      old == parameters[i].params
                                      new == parameters'[i].params
                                  IN  /\ DOMAIN new = DOMAIN old \cup free
                                      /\ \A k \in free : new[k] = o[k]
                                      /\ \A k \in DOMAIN old \ free : new[k] = old[k]
                      /\ (\A n \in 1..Len(u.parameters) :
                             u.parameters[n].process # parameters[i].process)
                            => parameters'[i] = parameters[i]
      ]_vars

\* the formats the catalog entry accepts for the inputs of a datatype
DeclaredFormats(datatype) ==
    UNION {{entry.input[n].format[k] : k \in 1..Len(entry.input[n].format)} :
              n \in {m \in 1..Len(entry.input) : entry.input[m].datatype = datatype}}

\* C22: after any sequence of merge, attach_to and update_location calls, every
\* format an input accepts is a format the catalog entry declared for that
\* datatype: merge narrows the accepted formats and never adds one.
C22_FormatsOnlyNarrow ==
    \A i \in 1..Len(input) :
        \A k \in 1..Len(input[i].format) :
            input[i].format[k] \in DeclaredFormats(input[i].datatype)

\* a merge has narrowed an input the catalog declared with formats a and b to
\* format b alone
C22_Witness ==
    /\ p_call.op = "merge"
    /\ p_call.outcome = "ok"
    /\ \E i \in 1..Len(input) : input[i].format = <<"b">>

(***************************************************************************)
(* Claims about the registries, checked under SpecReg                      *)
(***************************************************************************)
\* the final stage names of the entries of the catalog last constructed from
FinalNames ==
    [i \in 1..Len(catalog) |->
        IF r_call.op = "ExternalParamsSet"
        THEN DottedName(catalog[i].level_1, catalog[i].level_2, catalog[i].level_3)
        ELSE catalog[i].name]

\* C2: constructing a registry from a catalog in which two entries yield the
\* same final stage name fails (ValueError, the duplicate error); from a
\* catalog without a repeated name it succeeds with as many descriptors as the
\* catalog has entries; no registry holds two descriptors of one name.
C2_DuplicateNamesRejected ==
    r_call.op # "none"
       => /\ IF \E i, j \in 1..Len(catalog) : i # j /\ FinalNames[i] = FinalNames[j]
             THEN r_call.outcome = "ValueError"
             ELSE r_call.outcome = "ok" /\ Len(processes) = Len(catalog)
          /\ \A i, j \in 1..Len(processes) :
                processes[i].name = processes[j].name => i = j

(***************************************************************************)
(* Claims about Command, checked under SpecCmd                             *)
(***************************************************************************)
\* C3: update(new_cmd) rebuilds the argument vector for the profile, and when a
\* process was launched whose launch arguments differ from the new vector the
\* call ends with the handle, the captured stdout and the captured stderr all
\* unset; an output or error access that follows fails as never-run.
C3_UpdateClearsStaleRun ==
    [][ /\ \A c \in CmdStrings :
             update(c) =>
                /\ _cmd' = _build_cmd(profile, c).val
                /\ (process # NoProcess /\ process.args # _build_cmd(profile, c).val)
                      => (process' = NoProcess /\ _stdout' = 0 /\ _stderr' = 0)
        /\ \A e \in BOOLEAN :
             (c_call.warned /\ (command_output(e) \/ error(e)))
                => c_call'.outcome = "NotImplementedError"
      ]_vars

\* a launched and captured run has just been cleared by update
C3_Witness ==
    /\ c_call.op = "update"
    /\ c_call.warned
    /\ process = NoProcess
    /\ Len(children) > 0

\* C4 as stated: wait() on a launched Command whose child does not end within
\* the timeout fails with the timeout error and the captured stdout and stderr
\* are unset after the failure.
C4_WaitTimeoutLeavesCapturesUnset ==
    [][ \A e \in BOOLEAN :
          (wait(e) /\ process # NoProcess /\ TimesOut(e))
             => (c_call'.outcome = "TimeoutExpired" /\ _stdout' = 0 /\ _stderr' = 0)
      ]_vars

\* C5: output or error on a Command that was never launched, or whose launch
\* update cleared, fails with the not-run error (NotImplementedError in the
\* code) and leaves the argument vector, the handle and the captures unchanged.
C5_NotRunError ==
    [][ \A e \in BOOLEAN :
          ((command_output(e) \/ error(e)) /\ process = NoProcess)
             => /\ c_call'.outcome = "NotImplementedError"
                /\ UNCHANGED <<_cmd, process, _stdout, _stderr>>
      ]_vars

\* error was asked of a Command whose launch update had cleared
C5_Witness ==
    /\ c_call.op = "error"
    /\ c_call.outcome = "NotImplementedError"
    /\ Len(children) > 0

\* C6 as stated: after Construct(c, profile) or update(c), cmd is c under the
\* local profile and "qsub" + " " + c under the profile named grid.
C6_CmdPerProfile_Grid ==
    /\ (c_call.op \in {"Construct", "update"} /\ c_call.outcome = "ok" /\ profile = "local")
          => cmd = c_call.cmd
    /\ (c_call.op = "Construct" /\ c_call.profile = "grid")
          => (built /\ cmd = QSUB \o <<" ">> \o c_call.cmd)

\* C6 amended: after Construct(c, profile) or update(c), cmd is c under the
\* profile "local" and "qsub" + " " + c under the profile "sge".
C6_CmdPerProfile ==
    (c_call.op \in {"Construct", "update"} /\ c_call.outcome = "ok")
       => /\ built
          /\ profile \in {"local", "sge"}
          /\ profile = "local" => cmd = c_call.cmd
          /\ profile = "sge" => cmd = QSUB \o <<" ">> \o c_call.cmd

\* update was given a command with a leading space under the profile sge
C6_Witness ==
    /\ c_call.op = "update"
    /\ profile = "sge"
    /\ c_call.cmd = <<" ", "a">>
    /\ cmd = QSUB \o <<" ", " ", "a">>

\* C7 as stated: constructing a Command succeeds exactly when the profile is
\* one of {local, grid}, and fails with ValueError otherwise.
C7_ProfilesAccepted_Grid ==
    c_call.op = "Construct"
       => /\ c_call.outcome = "ok" <=> c_call.profile \in {"local", "grid"}
          /\ c_call.outcome # "ok" => (c_call.outcome = "ValueError" /\ ~built)

\* C7 amended: constructing a Command succeeds exactly when the profile is one
\* of {local, sge}; for every other value it fails with ValueError and no
\* Command is produced.
C7_ProfilesAccepted ==
    c_call.op = "Construct"
       => /\ c_call.outcome = "ok" <=> c_call.profile \in {"local", "sge"}
          /\ c_call.outcome = "ok" => (built /\ profile = c_call.profile)
          /\ c_call.outcome # "ok" => (c_call.outcome = "ValueError" /\ ~built)

\* a construction with an unknown profile has just failed
C7_Witness ==
    /\ c_call.op = "Construct"
    /\ c_call.outcome = "ValueError"
    /\ c_call.profile \notin {"local", "sge"}
    /\ ~built

\* C13: in every reachable state the Command has at most one running child
\* that it launched, and a running child is the one the Command holds the
\* handle of: no call leaves an earlier child running without its handle.
C13_AtMostOneRunningChild ==
    \A k \in 1..Len(children) :
        children[k] => (process # NoProcess /\ process.pid = k)

\* C14: a child that exceeds the time limit is terminated: when a wait, output,
\* error or log call has failed with the timeout error, the child of the
\* Command is not running.
C14_TimeoutTerminatesChild ==
    [][ \A e \in BOOLEAN :
          ( /\ wait(e) \/ command_output(e) \/ error(e) \/ log(e)
            /\ c_call'.outcome = "TimeoutExpired" )
             => ~children'[process'.pid] ]_vars

\* C15: log on a launched Command uses the cached captures when both are
\* present and otherwise captures as output and error do, so that after a
\* successful log both captures are cached, those of the launched child when
\* they were not cached before; on a never-launched Command log fails as
\* not-run.
C15_LogCachesCaptures ==
    [][ \A e \in BOOLEAN :
          log(e)
             => IF _stdout # 0 /\ _stderr # 0
                THEN c_call'.outcome = "ok" /\ UNCHANGED <<_stdout, _stderr>>
                ELSE IF process = NoProcess
                THEN c_call'.outcome = "NotImplementedError"
                ELSE c_call'.outcome = "ok"
                        => (_stdout' = process.pid /\ _stderr' = process.pid)
      ]_vars

\* C16: after a successful wait, or a successful access to output or error, of
\* a launched Command, an access to output or to error takes the cached text,
\* succeeds and captures nothing from the child again.
C16_CachedAccess ==
    [][ \A e \in BOOLEAN :
          ( /\ c_call.op \in {"wait", "output", "error"}
            /\ c_call.outcome = "ok"
            /\ process # NoProcess )
             => /\ command_output(e)
                   => (_stdout # 0 /\ c_call'.outcome = "ok"
                          /\ UNCHANGED <<_stdout, _stderr, children>>)
                /\ error(e)
                   => (_stderr # 0 /\ c_call'.outcome = "ok"
                          /\ UNCHANGED <<_stdout, _stderr, children>>)
      ]_vars

\* C20: in every reachable state the captured stdout and the captured stderr
\* are both set or both unset.
C20_CapturesBothOrNone == (_stdout = 0) <=> (_stderr = 0)

\* C21: in every reachable state of a Command, whenever a captured stdout or
\* stderr is present the process handle is set and the launch arguments of that
\* process are the current argument vector; an output or error access that
\* returned normally served the capture of a handle launched with the current
\* argument vector.
C21_CapturesMatchCmd ==
    /\ (_stdout # 0 \/ _stderr # 0)
          => (process # NoProcess /\ process.args = _cmd)
    /\ (c_call.op \in {"output", "error"} /\ c_call.outcome = "ok")
          => (process # NoProcess /\ process.args = _cmd)

\* update was called on a captured run with the arguments it was launched with,
\* and the handle and both captures are kept
C21_Witness ==
    /\ c_call.op = "update"
    /\ ~c_call.warned
    /\ process # NoProcess
    /\ _stdout # 0
    /\ _stderr # 0

====
